---------------------------- MODULE Spec2Model ----------------------------
(***************************************************************************)
(* A model of the LLMPC plan/execute loop of src/llmpc/llmpc.py (variant   *)
(* "v1", tool-call executor) and src/llmpc/llmpc_v2.py (variant "v2",      *)
(* fenced-block executor).                                                 *)
(*                                                                         *)
(* Text is a sequence of one-character strings, so that str.split,         *)
(* str.strip and the regular expression of execute are computed character  *)
(* by character.  The file system is a set of directories and a function   *)
(* from file paths to contents; a path is a sequence of components, each a *)
(* text.                                                                   *)
(*                                                                         *)
(* A character that is neither printable ASCII nor one of the escapes      *)
(* "\t", "\n", "\r", "\f" is written by the name of its code point, as in    *)
(* "U+00E9".  The texts of the model are built of ASCII and of the         *)
(* characters named below: all the whitespace of Python, and some of the   *)
(* digits, letters and surrogates beyond ASCII.                            *)
(***************************************************************************)
EXTENDS Integers, Sequences, FiniteSets, TLC

VARIABLES
    variant,    \* "v1": llmpc.py, "v2": llmpc_v2.py
    pc,         \* position of main(): start, plan, plan_wait, execute, exec_wait, gate, done, failed
    iteration,  \* the loop variable of main(), 0 .. NumIterations-1
    goal,       \* self.goal
    actions,    \* self.actions: sequence of step texts
    context,    \* self.context: text
    plan,       \* the local plan of main()
    dirs,       \* file system: the set of directories (paths)
    files,      \* file system: file path -> content
    request,    \* the LLM request in flight (the system prompt's fields), or NoRequest
    content,    \* the content of the last LLM response received
    exc,        \* the exception that left main(), "none" while it runs
    llmCalls,   \* number of LLM requests issued so far
    trace       \* the Planning and Executing steps completed so far, in order

vars == <<variant, pc, iteration, goal, actions, context, plan, dirs, files,
          request, content, exc, llmCalls, trace>>

-----------------------------------------------------------------------------
(* Characters and text *)

Digits == {"0", "1", "2", "3", "4", "5", "6", "7", "8", "9"}

Letters == {"a", "b", "c", "d", "e", "f", "g", "h", "i", "j", "k", "l", "m",
            "n", "o", "p", "q", "r", "s", "t", "u", "v", "w", "x", "y", "z",
            "A", "B", "C", "D", "E", "F", "G", "H", "I", "J", "K", "L", "M",
            "N", "O", "P", "Q", "R", "S", "T", "U", "V", "W", "X", "Y", "Z"}

\* digits beyond ASCII: superscript two, three and one, Arabic-Indic three
OtherDigits == {"U+00B2", "U+00B3", "U+00B9", "U+0663"}

\* letters and numbers beyond ASCII that are no digits: e acute, one half
OtherWord == {"U+00E9", "U+00BD"}

\* the whitespace of Python (str.isspace), all 29 characters
Spaces ==
    {" ", "\t", "\n", "\r", "\f", "U+000B", "U+001C", "U+001D", "U+001E", "U+001F",
     "U+0085", "U+00A0", "U+1680", "U+2000", "U+2001", "U+2002", "U+2003",
     "U+2004", "U+2005", "U+2006", "U+2007", "U+2008", "U+2009", "U+200A",
     "U+2028", "U+2029", "U+202F", "U+205F", "U+3000"}

\* the surrogates U+DC80 .. U+DCFF, by which a str holds the bytes 0x80 ..
\* 0xFF of a file name (the surrogateescape error handler)
EscapedBytes == {"U+DC80", "U+DCFF"}

\* lone surrogates: no encoding to UTF-8
Surrogates == {"U+D800", "U+DFFF"} \cup EscapedBytes

NUL == "U+0000"

\* the surrogates that no file name can hold
NotInPaths == Surrogates \ EscapedBytes

DigitChars == Digits \cup OtherDigits

WordChars == Letters \cup Digits \cup {"_"} \cup OtherDigits \cup OtherWord

\* str.isdigit() of one character
IsDigit(c) == c \in DigitChars

\* the characters str.strip() removes and the regular expression's \s matches
IsSpace(c) == c \in Spaces

\* the regular expression's \w (of a str pattern: Unicode letters and numbers)
IsWord(c) == c \in WordChars

\* the text holds a surrogate
HasSurrogate(s) == \E i \in 1 .. Len(s) : s[i] \in Surrogates

\* the characters of two bytes in UTF-8 (U+0080 .. U+07FF) and of three
TwoBytes == {"U+0085", "U+00A0"} \cup OtherDigits \cup OtherWord

ThreeBytes ==
    {"U+1680", "U+2000", "U+2001", "U+2002", "U+2003", "U+2004", "U+2005",
     "U+2006", "U+2007", "U+2008", "U+2009", "U+200A", "U+2028", "U+2029",
     "U+202F", "U+205F", "U+3000"}

\* the number of bytes of the character in a file name: its UTF-8 length, one
\* byte for an escaped byte
Utf8Len(c) == IF c \in TwoBytes THEN 2 ELSE IF c \in ThreeBytes THEN 3 ELSE 1

RECURSIVE Bytes(_)
Bytes(s) == IF s = <<>> THEN 0 ELSE Utf8Len(Head(s)) + Bytes(Tail(s))

\* s has more than n bytes (it has at most 3 for each character)
Exceeds(s, n) == 3 * Len(s) > n /\ Bytes(s) > n

NL == <<"\n">>

SetMin(S) == CHOOSE x \in S : \A y \in S : x <= y
SetMax(S) == CHOOSE x \in S : \A y \in S : x >= y

\* s[i:] of Python, 1-based: the text from index i on
From(s, i) == SubSeq(s, i, Len(s))

\* str.find: the least index >= from at which pat occurs in s, 0 when none
Find(s, pat, from) ==
    LET hits == {i \in from .. (Len(s) - Len(pat) + 1) :
                    SubSeq(s, i, i + Len(pat) - 1) = pat}
    IN  IF hits = {} THEN 0 ELSE SetMin(hits)

\* the parts of s from index from on, between the occurrences of sep
RECURSIVE SplitFrom(_, _, _)
SplitFrom(s, sep, from) ==
    LET i == Find(s, sep, from)
    IN  IF i = 0 THEN <<SubSeq(s, from, Len(s))>>
        ELSE <<SubSeq(s, from, i - 1)>> \o SplitFrom(s, sep, i + Len(sep))

\* str.split(sep): the list of the parts between the occurrences of sep
Split(s, sep) == SplitFrom(s, sep, 1)

\* str.split(sep, 1): at most one split
SplitOnce(s, sep) ==
    LET i == Find(s, sep, 1)
    IN  IF i = 0 THEN <<s>>
        ELSE <<SubSeq(s, 1, i - 1), From(s, i + Len(sep))>>

\* str.lstrip(), str.rstrip(), str.strip()
LStrip(s) ==
    LET keep == {i \in 1 .. Len(s) : ~IsSpace(s[i])}
    IN  IF keep = {} THEN <<>> ELSE From(s, SetMin(keep))

RStrip(s) ==
    LET keep == {i \in 1 .. Len(s) : ~IsSpace(s[i])}
    IN  IF keep = {} THEN <<>> ELSE SubSeq(s, 1, SetMax(keep))

Strip(s) == LStrip(RStrip(s))

\* sep.join of the parts from index k on
RECURSIVE JoinFrom(_, _, _)
JoinFrom(parts, sep, k) ==
    IF k > Len(parts) THEN <<>>
    ELSE IF k = Len(parts) THEN parts[k]
    ELSE parts[k] \o sep \o JoinFrom(parts, sep, k + 1)

\* sep.join(parts)
Join(parts, sep) == JoinFrom(parts, sep, 1)

\* all concatenations of at most n elements of the set F of texts
RECURSIVE Concats(_, _)
Concats(F, n) ==
    IF n = 0 THEN {<<>>}
    ELSE LET prev == Concats(F, n - 1)
         IN  prev \cup {p \o f : p \in prev, f \in F}

-----------------------------------------------------------------------------
(* Planner: the parsing of plan() *)

MARKER == <<"P", "L", "A", "N", ":">>

Returned(v) == [raised |-> "none", value |-> v]
Raised(e)   == [raised |-> e, value |-> <<>>]

\* the loop over plan_section.split("\n"): the steps of the lines, or the
\* IndexError of line.split(".", 1)[1] on a line without a period
RECURSIVE plan_steps(_)
plan_steps(lines) ==
    IF lines = <<>> THEN Returned(<<>>)
    ELSE LET line == Head(lines)
             rest == plan_steps(Tail(lines))
         IN  IF Strip(line) # <<>> /\ IsDigit(line[1])
             THEN LET halves == SplitOnce(line, <<".">>)
                  IN  IF Len(halves) < 2 THEN Raised("IndexError")
                      ELSE IF rest.raised # "none" THEN rest
                      ELSE Returned(<<Strip(halves[2])>> \o rest.value)
             ELSE rest

\* plan() as it would be with a guard that returns no steps when the marker
\* is absent
plan_parse_lenient(text) ==
    LET parts == Split(text, MARKER)
    IN  IF Len(parts) < 2 THEN Returned(<<>>)
        ELSE plan_steps(Split(Strip(parts[2]), NL))

\* plan(): from the response's content to the returned steps
plan_parse(text) ==
    LET parts == Split(text, MARKER)
    IN  IF Len(parts) < 2 THEN Raised("IndexError")
        ELSE LET plan_section == Strip(parts[2])
             IN  plan_steps(Split(plan_section, NL))

-----------------------------------------------------------------------------
(* File system: paths, open(path, 'w') *)

SLASH  == <<"/">>
DOT    == <<".">>
DOTDOT == <<".", ".">>

Root == <<>>

\* the process's working directory, one level below the root
Cwd == << <<"w">> >>

\* the literal "files" of execute and of update_context's "./files"
FILES == <<"f", "i", "l", "e", "s">>

\* the workspace directory: ./files
Workspace == Cwd \o <<FILES>>

Parent(p) == IF p = <<>> THEN <<>> ELSE SubSeq(p, 1, Len(p) - 1)

\* the file system as open(p, 'a') and write(data) would leave it
WithFileAppended(fs, p, data) ==
    [dirs  |-> fs.dirs,
     files |-> [q \in DOMAIN fs.files \cup {p} |->
                    IF q # p THEN fs.files[q]
                    ELSE IF p \in DOMAIN fs.files THEN fs.files[p] \o data
                    ELSE data]]

\* the file system with file p holding data
WithFile(fs, p, data) ==
    [dirs  |-> fs.dirs,
     files |-> [q \in DOMAIN fs.files \cup {p} |->
                    IF q = p THEN data ELSE fs.files[q]]]

\* the file system without the files and directories at or below p
Without(fs, p) ==
    LET below(q) == Len(q) >= Len(p) /\ SubSeq(q, 1, Len(p)) = p
    IN  [dirs  |-> {d \in fs.dirs : ~below(d)},
         files |-> [q \in {f \in DOMAIN fs.files : ~below(f)} |-> fs.files[q]]]

\* os.path.join(a, b): b alone when it is absolute
path_join(a, b) ==
    IF b # <<>> /\ b[1] = "/" THEN b ELSE a \o SLASH \o b

\* path resolution over the leading components: each must lead to an
\* existing directory ("" and "." stay, ".." goes to the parent)
RECURSIVE walk_dirs(_, _, _)
walk_dirs(ds, cur, comps) ==
    IF comps = <<>> THEN [ok |-> TRUE, dir |-> cur]
    ELSE LET c == Head(comps)
             next == IF c = <<>> \/ c = DOT THEN cur
                     ELSE IF c = DOTDOT THEN Parent(cur)
                     ELSE cur \o <<c>>
         IN  IF next \in ds THEN walk_dirs(ds, next, Tail(comps))
             ELSE [ok |-> FALSE, dir |-> cur]

\* NAME_MAX and PATH_MAX of the file system, in bytes
NameMax == 255

PathMax == 4096

\* with open(path, 'w', encoding='utf-8') as f: f.write(data)
\* The path is encoded first: UnicodeEncodeError on a surrogate that is no
\* escaped byte, then ValueError on an embedded null character.  The system
\* call fails with OSError: ENAMETOOLONG for a path of PathMax bytes or a
\* component of more than NameMax, FileNotFoundError (or NotADirectoryError)
\* when a leading component is no directory, IsADirectoryError when the path
\* names a directory.  Otherwise the file is created or truncated; write
\* then raises UnicodeEncodeError on data that holds a surrogate and leaves
\* the file empty, or the file holds data.
open_write(fs, path, data) ==
    LET comps  == Split(path, SLASH)
        start  == IF path # <<>> /\ path[1] = "/" THEN Root ELSE Cwd
        w      == walk_dirs(fs.dirs, start, SubSeq(comps, 1, Len(comps) - 1))
        name   == comps[Len(comps)]
        target == w.dir \o <<name>>
    IN  IF \E i \in 1 .. Len(path) : path[i] \in NotInPaths
            THEN [raised |-> "UnicodeEncodeError", fs |-> fs, path |-> <<>>]
        ELSE IF \E i \in 1 .. Len(path) : path[i] = NUL
            THEN [raised |-> "ValueError", fs |-> fs, path |-> <<>>]
        ELSE IF \/ path = <<>>
                \/ Exceeds(path, PathMax - 1)
                \/ \E i \in 1 .. Len(comps) : Exceeds(comps[i], NameMax)
                \/ ~w.ok
            THEN [raised |-> "OSError", fs |-> fs, path |-> <<>>]
        ELSE IF name \in {<<>>, DOT, DOTDOT} \/ target \in fs.dirs
            THEN [raised |-> "OSError", fs |-> fs, path |-> <<>>]
        ELSE IF HasSurrogate(data)
            THEN [raised |-> "UnicodeEncodeError",
                  fs |-> WithFile(fs, target, <<>>), path |-> target]
        ELSE [raised |-> "none", fs |-> WithFile(fs, target, data), path |-> target]

-----------------------------------------------------------------------------
(* Executor of llmpc_v2.py: the fenced blocks of the response *)

\* The grave accent U+0060 is written "GRAVE": a TLA+ string cannot hold it.
GRAVE == "GRAVE"

\* the fence: three grave accents
FENCE == <<GRAVE, GRAVE, GRAVE>>

NoMatch == [ok |-> FALSE, language |-> <<>>, filename |-> <<>>, code |-> <<>>, end |-> 0]

\* the length of the longest run of word characters of c from index i
WordRun(c, i) ==
    LET stops == {j \in i .. Len(c) : ~IsWord(c[j])}
    IN  IF i > Len(c) THEN 0
        ELSE IF stops = {} THEN Len(c) - i + 1 ELSE SetMin(stops) - i

\* the length of the longest run of whitespace of c from index i
SpaceRun(c, i) ==
    LET stops == {j \in i .. Len(c) : ~IsSpace(c[j])}
    IN  IF i > Len(c) THEN 0
        ELSE IF stops = {} THEN Len(c) - i + 1 ELSE SetMin(stops) - i

\* The match of  FENCE(\w+)\s+([^\n]+)\n(.*?)FENCE  (DOTALL) starting at index s.
\* \w+ takes the whole word run (a shorter one is followed by a word
\* character, which \s+ refuses).  \s+ is greedy and gives characters back
\* one at a time: with m whitespace characters taken, [^\n]+ takes the rest of
\* the line from p, which must be non-empty and end at a newline, and the lazy
\* body ends at the first fence after that newline.
match_at(c, s) ==
    IF s + 2 > Len(c) \/ SubSeq(c, s, s + 2) # FENCE THEN NoMatch
    ELSE
    LET W == WordRun(c, s + 3)
        S == SpaceRun(c, s + 3 + W)
        lineEnd(p) == Find(c, NL, p)
        good(m) == LET p == s + 3 + W + m
                   IN  /\ p <= Len(c)
                       /\ c[p] # "\n"
                       /\ lineEnd(p) # 0
                       /\ Find(c, FENCE, lineEnd(p) + 1) # 0
        taken == {m \in 1 .. S : good(m)}
    IN  IF W = 0 \/ taken = {} THEN NoMatch
        ELSE LET m == SetMax(taken)
                 p == s + 3 + W + m
                 e == lineEnd(p)
                 q == Find(c, FENCE, e + 1)
             IN  [ok       |-> TRUE,
                  language |-> SubSeq(c, s + 3, s + 2 + W),
                  filename |-> SubSeq(c, p, e - 1),
                  code     |-> SubSeq(c, e + 1, q - 1),
                  end      |-> q + 3]

\* re.finditer: the non-overlapping matches from index pos on, left to right
RECURSIVE code_blocks(_, _)
code_blocks(c, pos) ==
    LET starts == {s \in pos .. Len(c) : match_at(c, s).ok}
    IN  IF starts = {} THEN <<>>
        ELSE LET b == match_at(c, SetMin(starts))
             IN  <<b>> \o code_blocks(c, b.end)

\* the loop over code_blocks: each block's file is written in
\* turn; an error of open() or of write() leaves the loop with the earlier
\* files written, and the file of a failed write() empty
RECURSIVE write_blocks(_, _)
write_blocks(fs, blocks) ==
    IF blocks = <<>> THEN [raised |-> "none", fs |-> fs, written |-> <<>>]
    ELSE LET b == Head(blocks)
             filepath == path_join(FILES, b.filename)
             r == open_write(fs, filepath, Strip(b.code))
         IN  IF r.raised # "none"
                 THEN [raised |-> r.raised, fs |-> r.fs,
                       written |-> IF r.path = <<>> THEN <<>> ELSE <<r.path>>]
             ELSE LET rest == write_blocks(r.fs, Tail(blocks))
                  IN  [raised  |-> rest.raised,
                       fs      |-> rest.fs,
                       written |-> <<r.path>> \o rest.written]

-----------------------------------------------------------------------------
(* Context Builder: update_context and get_system_prompt *)

\* the files directly in the workspace directory: the entries of
\* os.listdir(files_dir) for which os.path.isfile holds
WorkspaceFiles(fs) ==
    {p \in DOMAIN fs.files : Len(p) = Len(Workspace) + 1 /\ Parent(p) = Workspace}

\* the orders in which os.listdir may return the entries of S: any
Orders(S) ==
    {o \in [1 .. Cardinality(S) -> S] : \A i, j \in 1 .. Cardinality(S) : o[i] = o[j] => i = j}

HEADER == <<"F", "i", "l", "e", ":", " ">>

DigitChar(d) == <<"0", "1", "2", "3", "4", "5", "6", "7", "8", "9">>[d + 1]

\* str(i) of a natural number
RECURSIVE Decimal(_)
Decimal(i) ==
    IF i < 10 THEN <<DigitChar(i)>> ELSE Decimal(i \div 10) \o <<DigitChar(i % 10)>>

\* reading in text mode (universal newlines): "\r\n" and a lone "\r" are
\* read as "\n"
RECURSIVE Translated(_)
Translated(data) ==
    IF data = <<>> THEN <<>>
    ELSE IF Head(data) # "\r" THEN <<Head(data)>> \o Translated(Tail(data))
    ELSE IF Len(data) >= 2 /\ data[2] = "\n" THEN NL \o Translated(SubSeq(data, 3, Len(data)))
    ELSE NL \o Translated(Tail(data))

\* f.readlines(), each line without its line end
ReadLines(data) ==
    LET parts == Split(Translated(data), NL)
    IN  IF parts[Len(parts)] = <<>> THEN SubSeq(parts, 1, Len(parts) - 1) ELSE parts

\* llmpc.py: [f"{i} {line.rstrip()}" for i, line in enumerate(lines)]
numbered_lines(data) ==
    LET lines == ReadLines(data)
    IN  [i \in 1 .. Len(lines) |-> Decimal(i - 1) \o <<" ">> \o RStrip(lines[i])]

\* one element of files_context
file_context(v, name, data) ==
    IF v = "v1" THEN HEADER \o name \o NL \o Join(numbered_lines(data), NL)
    ELSE HEADER \o name \o NL \o Translated(data)

\* "\n\n".join(files_context) with the workspace's files taken in order
files_context(v, fs, order) ==
    Join([i \in 1 .. Len(order) |->
             file_context(v, order[i][Len(order[i])], fs.files[order[i]])],
         NL \o NL)

\* what update_context does when "./files" does not exist: llmpc.py returns
\* and leaves self.context as it is, llmpc_v2.py creates the directory
on_missing_dir(v, ctx, fs) ==
    IF v = "v1" THEN [returns |-> TRUE, context |-> ctx, fs |-> fs]
    ELSE [returns |-> FALSE, context |-> ctx,
          fs |-> [dirs |-> fs.dirs \cup {Workspace}, files |-> fs.files]]

\* update_context: the new self.context and file system; order is the order
\* of os.listdir over the workspace's files.  os.listdir raises when
\* "./files" is a regular file.
update_context(v, ctx, fs, order) ==
    LET missing == Workspace \notin fs.dirs /\ Workspace \notin DOMAIN fs.files
        m == on_missing_dir(v, ctx, fs)
    IN  IF missing /\ m.returns
            THEN [raised |-> "none", context |-> m.context, fs |-> m.fs]
        ELSE LET fs1 == IF missing THEN m.fs ELSE fs
             IN  IF Workspace \in DOMAIN fs1.files
                     THEN [raised |-> "OSError", context |-> ctx, fs |-> fs1]
                 ELSE [raised |-> "none",
                       context |-> files_context(v, fs1, order),
                       fs |-> fs1]

\* get_system_prompt: self.update_context(), then the fields template.format
\* puts into the prompt
get_system_prompt(v, g, acts, ctx, fs, order) ==
    LET u == update_context(v, ctx, fs, order)
    IN  [raised |-> u.raised,
         context |-> u.context,
         fs |-> u.fs,
         prompt |-> [goal |-> g, actions |-> acts, context |-> u.context]]

-----------------------------------------------------------------------------
(* Tool calls of llmpc.py: CodeGenerator.generate, whose module (tools) is *)
(* not among the sources; its effect on the workspace follows sections 4.1 *)
(* and 4.5 of the specification.  A failing invocation raises and ends the *)
(* batch (the specification leaves the policy open; nothing handles the    *)
(* error in execute).                                                      *)

\* the "removed" area of the workspace storage
Removed == Cwd \o << <<"r", "e", "m", "o", "v", "e", "d">> >>

\* lines as file content: every line ended by a newline
FromLines(lines) ==
    IF lines = <<>> THEN <<>> ELSE Join(lines, NL) \o NL

ToolRaise(fs) == [raised |-> "NotFound", fs |-> fs]

\* one ToolInvocation applied to the workspace
apply_tool(fs, inv) ==
    LET target == Workspace \o <<inv.filename>>
        live == [dirs |-> fs.dirs \cup {Workspace}, files |-> fs.files]
        present == target \in DOMAIN fs.files
        lines == ReadLines(fs.files[target])
    IN  CASE inv.name = "CREATE_FILE" ->
                [raised |-> "none", fs |-> WithFile(live, target, <<>>)]
          [] inv.name = "APPEND_TO_FILE" ->
                IF ~present THEN ToolRaise(fs)
                ELSE [raised |-> "none",
                      fs |-> WithFile(fs, target,
                                FromLines(lines \o ReadLines(inv.content)))]
          [] inv.name = "MODIFY_FILE" ->
                IF ~present
                   \/ ~(0 <= inv.start_line /\ inv.start_line <= inv.end_line
                        /\ inv.end_line < Len(lines))
                THEN ToolRaise(fs)
                ELSE [raised |-> "none",
                      fs |-> WithFile(fs, target,
                                FromLines(SubSeq(lines, 1, inv.start_line)
                                          \o ReadLines(inv.content)
                                          \o SubSeq(lines, inv.end_line + 2, Len(lines))))]
          [] inv.name = "REMOVE_FILE" ->
                IF ~present THEN ToolRaise(fs)
                ELSE LET gone == [dirs  |-> fs.dirs \cup {Removed},
                                  files |-> [q \in DOMAIN fs.files \ {target} |-> fs.files[q]]]
                     IN  [raised |-> "none",
                          fs |-> WithFile(gone, Removed \o <<inv.filename>>, fs.files[target])]

\* the invocations of a response applied in the order parsed
RECURSIVE apply_tools(_, _)
apply_tools(fs, invs) ==
    IF invs = <<>> THEN [raised |-> "none", fs |-> fs]
    ELSE LET r == apply_tool(fs, Head(invs))
         IN  IF r.raised # "none" THEN r ELSE apply_tools(r.fs, Tail(invs))

-----------------------------------------------------------------------------
(* The orchestration loop: main() *)

GOAL == "create flappy bird using html javascript and css"

\* a loop of one iteration less
NumIterationsShort == 3 - 1

\* for iteration in range(3)
NumIterations == 3

\* if iteration < 2: input(...)
GateBefore == 2

NoRequest == [kind |-> "none", goal |-> "", actions |-> <<>>, context |-> <<>>, plan |-> <<>>]

FS == [dirs |-> dirs, files |-> files]

\* the for statement taking its next value
loop_advance(it) ==
    IF it + 1 < NumIterations THEN [pc |-> "plan", iteration |-> it + 1]
    ELSE [pc |-> "done", iteration |-> it]

\* main() as it would be with a handler that goes on with the next iteration
after_raise_continue(it) == loop_advance(it)

\* main() has no handler: an exception of plan(), execute() or input() ends
\* the loop
after_raise(it) == [pc |-> "failed", iteration |-> it]

\* after llmpc.execute(plan) returned
after_execute(it) ==
    IF it < GateBefore THEN [pc |-> "gate", iteration |-> it] ELSE loop_advance(it)

Raise(e) ==
    /\ exc' = e
    /\ pc' = after_raise(iteration).pc
    /\ iteration' = after_raise(iteration).iteration

Goto(next) ==
    /\ exc' = exc
    /\ pc' = next.pc
    /\ iteration' = next.iteration

\* self.actions as it would be if steps already in the history were skipped
extend_dedup(acts, p) ==
    acts \o SelectSeq(p, LAMBDA x : \A i \in 1 .. Len(acts) : acts[i] # x)

\* self.actions.extend(plan)
extend(acts, p) == acts \o p

\* os.getenv("OPENAI_KEY"): <<>> for None (the variable is not set), else
\* the value
ApiKeys == {<<>>, <<"">>, <<"sk">>}

\* main() up to the loop: without a key it raises ValueError before LLMPC is
\* constructed
Start ==
    /\ pc = "start"
    /\ \E api_key \in ApiKeys :
          IF api_key = <<>> \/ api_key[1] = ""
          THEN Raise("ValueError")
          ELSE Goto([pc |-> "plan", iteration |-> 0])
    /\ UNCHANGED <<variant, goal, actions, context, plan, dirs, files, request,
                   content, llmCalls, trace>>

\* print(...) of these texts can raise UnicodeEncodeError: one of them holds
\* a surrogate.  It raises when the error handler of sys.stdout refuses the
\* surrogate ("strict", the default, refuses every one); the handler is set
\* outside the program.
PrintCanRaise(texts) == \E i \in 1 .. Len(texts) : HasSurrogate(texts[i])

\* plan() up to its LLM request: get_system_prompt, print(prompt, instruction),
\* then the request is sent
PlanRequest ==
    /\ pc = "plan"
    /\ \E order \in Orders(WorkspaceFiles(FS)) :
       \E r \in {get_system_prompt(variant, goal, actions, context, FS, order)} :
              /\ context' = r.context
              /\ dirs' = r.fs.dirs
              /\ files' = r.fs.files
              /\ IF r.raised # "none"
                 THEN Raise(r.raised) /\ UNCHANGED <<request, llmCalls>>
                 ELSE \/ /\ PrintCanRaise(<<r.context>> \o actions)
                         /\ Raise("UnicodeEncodeError")
                         /\ UNCHANGED <<request, llmCalls>>
                      \/ /\ Goto([pc |-> "plan_wait", iteration |-> iteration])
                         /\ request' = [kind |-> "plan"] @@ r.prompt @@ [plan |-> <<>>]
                         /\ llmCalls' = llmCalls + 1
    /\ UNCHANGED <<variant, goal, actions, plan, content, trace>>

\* plan() from the LLM's answer on: the call fails, or its content is
\* printed (llmpc_v2.py) and parsed; then main() prints the steps of the plan
PlanReturnWith(Responses) ==
    /\ pc = "plan_wait"
    /\ request' = NoRequest
    /\ \/ /\ Raise("UpstreamFailure")
          /\ UNCHANGED <<content, plan, trace>>
       \/ \E r \in Responses :
             LET p == plan_parse(r)
             IN  /\ content' = r
                 /\ \/ /\ variant = "v2"
                       /\ PrintCanRaise(<<r>>)
                       /\ Raise("UnicodeEncodeError")
                       /\ UNCHANGED <<plan, trace>>
                    \/ /\ p.raised # "none"
                       /\ Raise(p.raised)
                       /\ UNCHANGED <<plan, trace>>
                    \/ /\ p.raised = "none"
                       /\ plan' = p.value
                       /\ trace' = Append(trace, [step |-> "plan", plan |-> p.value])
                       /\ \/ PrintCanRaise(p.value) /\ Raise("UnicodeEncodeError")
                          \/ Goto([pc |-> "execute", iteration |-> iteration])
    /\ UNCHANGED <<variant, goal, actions, context, dirs, files, llmCalls>>

\* execute(plan) up to its LLM request: get_system_prompt,
\* print(prompt, instruction) with the plan in the instruction, the request
ExecRequest ==
    /\ pc = "execute"
    /\ \E order \in Orders(WorkspaceFiles(FS)) :
       \E r \in {get_system_prompt(variant, goal, actions, context, FS, order)} :
              /\ context' = r.context
              /\ dirs' = r.fs.dirs
              /\ files' = r.fs.files
              /\ IF r.raised # "none"
                 THEN Raise(r.raised) /\ UNCHANGED <<request, llmCalls>>
                 ELSE \/ /\ PrintCanRaise(<<r.context>> \o actions \o plan)
                         /\ Raise("UnicodeEncodeError")
                         /\ UNCHANGED <<request, llmCalls>>
                      \/ /\ Goto([pc |-> "exec_wait", iteration |-> iteration])
                         /\ request' = [kind |-> "execute"] @@ r.prompt @@ [plan |-> plan]
                         /\ llmCalls' = llmCalls + 1
    /\ UNCHANGED <<variant, goal, actions, plan, content, trace>>

\* llmpc_v2.py execute(plan) from the LLM's answer on: the content is
\* printed, the blocks' files are written, then the plan joins self.actions
ExecReturnV2With(Responses) ==
    /\ pc = "exec_wait"
    /\ variant = "v2"
    /\ request' = NoRequest
    /\ \/ /\ Raise("UpstreamFailure")
          /\ UNCHANGED <<content, actions, dirs, files, trace>>
       \/ \E r \in Responses :
             /\ PrintCanRaise(<<r>>)
             /\ content' = r
             /\ Raise("UnicodeEncodeError")
             /\ UNCHANGED <<actions, dirs, files, trace>>
       \/ \E r \in Responses :
             LET w == write_blocks(FS, code_blocks(r, 1))
             IN  /\ content' = r
                 /\ dirs' = w.fs.dirs
                 /\ files' = w.fs.files
                 /\ IF w.raised # "none"
                    THEN Raise(w.raised) /\ UNCHANGED <<actions, trace>>
                    ELSE /\ Goto(after_execute(iteration))
                         /\ actions' = extend(actions, plan)
                         /\ trace' = Append(trace, [step |-> "execute", plan |-> plan])
    /\ UNCHANGED <<variant, goal, context, plan, llmCalls>>

\* llmpc.py execute(plan) from the request on: generate applies the tool
\* calls of the answer, then the plan joins self.actions
ExecReturnV1With(Batches) ==
    /\ pc = "exec_wait"
    /\ variant = "v1"
    /\ request' = NoRequest
    /\ \/ /\ Raise("UpstreamFailure")
          /\ UNCHANGED <<actions, dirs, files, trace>>
       \/ \E invs \in Batches :
             LET g == apply_tools(FS, invs)
             IN  /\ dirs' = g.fs.dirs
                 /\ files' = g.fs.files
                 /\ IF g.raised # "none"
                    THEN Raise(g.raised) /\ UNCHANGED <<actions, trace>>
                    ELSE /\ Goto(after_execute(iteration))
                         /\ actions' = extend(actions, plan)
                         /\ trace' = Append(trace, [step |-> "execute", plan |-> plan])
    /\ UNCHANGED <<variant, goal, context, plan, content, llmCalls>>

\* input("Press Enter to continue to next iteration..."): returns, or raises
\* EOFError when standard input is closed
Gate ==
    /\ pc = "gate"
    /\ \/ Goto(loop_advance(iteration))
       \/ Raise("EOFError")
    /\ UNCHANGED <<variant, goal, actions, context, plan, dirs, files, request,
                   content, llmCalls, trace>>

-----------------------------------------------------------------------------
(* The environment: the user changes the workspace while the program waits *)
(* for the LLM or for the Enter key                                        *)

\* rm -r ./files
EnvRemoveWorkspace ==
    /\ pc \in {"plan_wait", "exec_wait", "gate"}
    /\ Workspace \in dirs
    /\ dirs' = Without(FS, Workspace).dirs
    /\ files' = Without(FS, Workspace).files
    /\ UNCHANGED <<variant, pc, iteration, goal, actions, context, plan, request,
                   content, exc, llmCalls, trace>>

\* the user saves a file of the workspace
EnvWriteFile ==
    /\ pc \in {"plan_wait", "exec_wait", "gate"}
    /\ Workspace \in dirs
    /\ files' = WithFile(FS, Workspace \o << <<"u">> >>, <<"h", "\n">>).files
    /\ UNCHANGED <<variant, pc, iteration, goal, actions, context, plan, dirs,
                   request, content, exc, llmCalls, trace>>

-----------------------------------------------------------------------------
(* The answers of the LLM the loop is run with *)

NameA == <<"a">>
TagPy == <<"p", "y">>

\* a fenced block: opening line = tag, sep, filename; then the body
Block(tag, sep, name, body) == FENCE \o tag \o sep \o name \o NL \o body \o FENCE

PlanResponses ==
    { MARKER \o NL \o <<"1", ".", " ", "a">> \o NL \o <<"2", ".", " ", "b">>,
      <<"o", "k", " ">> \o MARKER \o <<" ", "1", ".", "a">>,
      <<"n", "o">>,
      MARKER \o NL \o <<"1", " ", "a">>,
      MARKER \o <<"\r", "\n", "U+00B3", ".", " ", "a", "\r", "\n", "1", ".", " ", "b">>,
      MARKER \o <<" ", "1", ".", " ", "U+DC80">> }

ExecResponses ==
    { Block(TagPy, <<" ">>, NameA, <<"x", "\n">>),
      Block(TagPy, <<" ">>, NameA, <<" ", "y">>) \o NL
          \o Block(TagPy, <<" ">>, <<"d", "/", "b">>, <<"z">>),
      Block(TagPy, <<" ">>, <<".", ".", "/", "e">>, <<"x">>),
      <<"o", "k">>,
      Block(TagPy, <<" ">>, NameA, <<"x", "\r", "\n", "y">>),
      Block(TagPy, <<" ">>, <<"U+DC80">>, <<"x">>) \o NL
          \o Block(TagPy, <<" ">>, NameA, <<"x", "U+D800">>) }

Tool(n, f, c, s, e) ==
    [name |-> n, filename |-> f, content |-> c, start_line |-> s, end_line |-> e]

ToolBatches ==
    { <<>>,
      <<Tool("CREATE_FILE", NameA, <<>>, 0, 0),
        Tool("APPEND_TO_FILE", NameA, <<"x", "\n", "y">>, 0, 0)>>,
      <<Tool("MODIFY_FILE", NameA, <<"z">>, 1, 1)>>,
      <<Tool("REMOVE_FILE", NameA, <<>>, 0, 0)>> }

EmptyFiles == [p \in {} |-> <<>>]

\* the file system main() may start on: no workspace yet, or the workspace
\* of an earlier run
InitialFileSystems ==
    { [dirs |-> {Root, Cwd}, files |-> EmptyFiles],
      [dirs |-> {Root, Cwd, Workspace},
       files |-> [p \in {Workspace \o << <<"u">> >>} |-> <<"h", "\n">>]] }

PlanReturn == PlanReturnWith(PlanResponses)
ExecReturnV2 == ExecReturnV2With(ExecResponses)
ExecReturnV1 == ExecReturnV1With(ToolBatches)

\* the state when main() is called
Init ==
    /\ variant \in {"v1", "v2"}
    /\ pc = "start"
    /\ iteration = 0
    /\ goal = GOAL
    /\ actions = <<>>
    /\ context = <<>>
    /\ plan = <<>>
    /\ \E fs \in InitialFileSystems : dirs = fs.dirs /\ files = fs.files
    /\ request = NoRequest
    /\ content = <<>>
    /\ exc = "none"
    /\ llmCalls = 0
    /\ trace = <<>>

Program ==
    \/ Start
    \/ PlanRequest
    \/ PlanReturn
    \/ ExecRequest
    \/ ExecReturnV2
    \/ ExecReturnV1
    \/ Gate

Next ==
    \/ Program
    \/ EnvRemoveWorkspace
    \/ EnvWriteFile

Spec == Init /\ [][Next]_vars

\* the positions of main()
Positions == {"start", "plan", "plan_wait", "execute", "exec_wait", "gate", "done", "failed"}

\* main() leaves its position: the steps of Program are the steps of Next
\* that change pc (ProgramAdvances below), and one of them is possible at
\* every position but "done" and "failed"
Advance == pc \notin {"done", "failed"} /\ pc' \in Positions

\* Program is exactly what moves pc
ProgramAdvances == [][Program <=> pc' # pc]_vars

\* the interpreter runs main() on, and every LLM call and every input() ends,
\* with an answer or with an error: main() does not stay at one position
\* for ever
FairSpec == Spec /\ WF_pc(Advance)

-----------------------------------------------------------------------------
(* The planner on its own: plan() receives any answer built of at most     *)
(* MaxPlanFrags fragments                                                  *)

MaxPlanFrags == 5

PlanFrags ==
    { MARKER, NL, <<"1">>, <<".">>, <<" ">>, <<"a">>, <<"2", ".", "b">> }

\* answers with other line ends and characters beyond ASCII: a surrogate and
\* no marker, lines ended by "\r\n" and one numbered by a superscript digit,
\* a step that is a surrogate, other whitespace around a step
OtherPlanAnswers ==
    { <<"n", "U+D800">>,
      MARKER \o <<"\r", "\n", "U+00B3", ".", " ", "a", "\r", "\n", "1", ".", " ", "b">>,
      MARKER \o <<" ", "1", ".", " ", "U+DC80">>,
      MARKER \o <<"U+2003", "U+0663", ".", "U+00A0", "a", "\f">> }

PlannerInputs == Concats(PlanFrags, MaxPlanFrags) \cup OtherPlanAnswers

\* plan() waits for its answer, in the first iteration or in the second
InitPlanner ==
    /\ variant \in {"v1", "v2"}
    /\ pc = "plan_wait"
    /\ iteration \in {0, 1}
    /\ goal = GOAL
    /\ actions = (IF iteration = 0 THEN <<>> ELSE << <<"a">> >>)
    /\ context = <<>>
    /\ plan = actions
    /\ dirs = {Root, Cwd, Workspace}
    /\ files = EmptyFiles
    /\ request = [kind |-> "plan", goal |-> goal, actions |-> actions,
                  context |-> context, plan |-> <<>>]
    /\ content = <<>>
    /\ exc = "none"
    /\ llmCalls = 2 * iteration + 1
    /\ trace = (IF iteration = 0 THEN <<>>
                ELSE <<[step |-> "plan", plan |-> actions],
                       [step |-> "execute", plan |-> actions]>>)

PlannerReturn == PlanReturnWith(PlannerInputs)

PlannerSpec == InitPlanner /\ [][PlannerReturn]_vars

-----------------------------------------------------------------------------
(* The executor of llmpc_v2.py on its own: execute() receives one fenced   *)
(* block whose opening line is built of at most MaxHeadFrags fragments and *)
(* whose body of at most MaxBodyFrags, or two blocks                       *)

MaxHeadFrags == 4

MaxBodyFrags == 2

HeadFrags == { TagPy, <<" ">>, NameA, SLASH, DOTDOT }

BodyFrags == { <<"x">>, <<" ">>, NL }

Heads == Concats(HeadFrags, MaxHeadFrags)

Bodies == Concats(BodyFrags, MaxBodyFrags)

OneBlock == {FENCE \o h \o NL \o b \o FENCE : h \in Heads, b \in Bodies}

PairBlocks ==
    { Block(TagPy, <<" ">>, NameA, <<"x">>),
      Block(TagPy, <<" ">>, NameA, <<"y", "\n">>),
      Block(TagPy, <<" ">>, <<"d", "/", "b">>, <<"z">>),
      Block(TagPy, NL, <<"n", "/", "b">>, <<"z">>),
      Block(<<"U+00E9">>, <<"U+00A0">>, <<"b", NUL, "c">>, <<"z">>),
      Block(TagPy, <<" ">>, NameA, <<"x", "U+D800">>),
      Block(TagPy, <<" ">>, <<"U+DC80">>, <<"v">>),
      Block(TagPy, <<" ">>, <<"a", "\r">>, <<"x", "\r", "\n", "y", "\r">>) }

TwoBlocks == {b1 \o NL \o b2 : b1, b2 \in PairBlocks}

ExecutorInputs == OneBlock \cup TwoBlocks

\* the workspace execute() finds: empty, or holding a file and a directory
ExecutorFileSystems ==
    { [dirs |-> {Root, Cwd, Workspace}, files |-> EmptyFiles],
      [dirs |-> {Root, Cwd, Workspace, Workspace \o << <<"d">> >>},
       files |-> [p \in {Workspace \o <<NameA>>} |-> <<"o", "l", "d">>]] }

\* execute(plan) waits for its answer in the first iteration
InitExecutor ==
    /\ variant = "v2"
    /\ pc = "exec_wait"
    /\ iteration = 0
    /\ goal = GOAL
    /\ actions = <<>>
    /\ plan = << <<"a">> >>
    /\ \E fs \in ExecutorFileSystems :
          /\ dirs = fs.dirs
          /\ files = fs.files
          /\ \E order \in Orders(WorkspaceFiles(fs)) :
                context = files_context("v2", fs, order)
    /\ request = [kind |-> "execute", goal |-> goal, actions |-> actions,
                  context |-> context, plan |-> plan]
    /\ content = <<>>
    /\ exc = "none"
    /\ llmCalls = 2
    /\ trace = <<[step |-> "plan", plan |-> plan]>>

ExecutorReturn == ExecReturnV2With(ExecutorInputs)

ExecutorSpec == InitExecutor /\ [][ExecutorReturn]_vars

-----------------------------------------------------------------------------
(* Properties *)

IsPrefix(s, t) == Len(s) <= Len(t) /\ SubSeq(t, 1, Len(s)) = s

\* the step in which execute(plan) returns to main()
ExecuteReturned == pc = "exec_wait" /\ pc' \in {"gate", "plan", "done"}

\* the step in which get_system_prompt runs: the first of plan() and of execute()
PromptBuilt == pc \in {"plan", "execute"} /\ pc' # pc

\* the step in which plan() or execute() handles the LLM's answer
AnswerHandled == pc \in {"plan_wait", "exec_wait"} /\ pc' # pc

HasMarker(text) ==
    \E i \in 1 .. Len(text) :
        i + Len(MARKER) - 1 <= Len(text) /\ SubSeq(text, i, i + Len(MARKER) - 1) = MARKER

InWorkspace(p) ==
    Len(p) > Len(Workspace) /\ SubSeq(p, 1, Len(Workspace)) = Workspace

\* C1: ActionHistory is append-only.  In every step the history before is a
\* prefix of the history after; the history changes only when execute(plan)
\* returns, and then it is the history before followed by the steps of plan,
\* in plan order, steps already in the history included.
C1_AppendOnly ==
    [][ /\ IsPrefix(actions, actions')
        /\ (ExecuteReturned => actions' = actions \o plan)
        /\ (actions' # actions => ExecuteReturned) ]_vars

\* C1, its case: two executed plans held the same step text, and the history
\* holds it twice.
C1_Witness ==
    /\ Len(trace) >= 4
    /\ \E i, j \in 1 .. Len(actions) : i < j /\ actions[i] = actions[j]

\* C2: when a Planning or Executing step fails, the loop stops.  The step
\* that raises ends main(), and from then on there is no further LLM request,
\* no further Planning or Executing step and no further iteration.
C2_StopsOnFailure ==
    [][ /\ (exc = "none" /\ exc' # "none" => pc' = "failed")
        /\ (exc # "none" =>
               /\ pc' = pc
               /\ iteration' = iteration
               /\ llmCalls' = llmCalls
               /\ trace' = trace
               /\ actions' = actions
               /\ exc' = exc) ]_vars

\* C2, its case: a step of the second iteration failed, after a first
\* iteration that succeeded, and a third iteration was still to come.
C2_Witness ==
    /\ pc = "failed"
    /\ exc # "none"
    /\ iteration = 1
    /\ Len(trace) >= 2

\* C3 as claimed: no partial-plan execution in llmpc_v2.py.  When execute(plan)
\* raises, the file system and the history are as before the answer was
\* handled; and when the answer's handling changed a file, the plan's steps
\* are appended to the history.
C3_NoPartialExecution ==
    [][ (variant = "v2" /\ pc = "exec_wait" /\ pc' # pc) =>
            /\ (exc' # "none" => files' = files /\ dirs' = dirs /\ actions' = actions)
            /\ (files' # files => actions' = actions \o plan) ]_vars

\* the trace is Planning, Executing, Planning, ... and every Executing step
\* has the plan of the Planning step before it
Alternates ==
    \A i \in 1 .. Len(trace) :
        /\ trace[i].step = (IF i % 2 = 1 THEN "plan" ELSE "execute")
        /\ (i % 2 = 0 => trace[i].plan = trace[i - 1].plan)

\* C4: when no step ever fails (every LLM call returns an answer plan() can
\* parse, every write succeeds, every input() returns), main() eventually is
\* Done.  It is Done after exactly 3 Planning and 3 Executing steps and 6 LLM
\* requests, and at any time the steps alternate, starting with Planning, each
\* Executing step with the plan of the Planning step before it.
C4_ThreeIterations ==
    /\ [](Alternates)
    /\ [](pc = "done" => exc = "none" /\ Len(trace) = 6 /\ llmCalls = 6)
    /\ ([](exc = "none") => <>(pc = "done"))

\* C4, its case: the loop is Done.
C4_Witness ==
    /\ pc = "done"
    /\ Len(trace) = 6
    /\ trace[6].step = "execute"

\* C5 as claimed: every file the executor of llmpc_v2.py creates or changes
\* lies inside the workspace directory.
C5_WritesConfined ==
    [][ (variant = "v2" /\ pc = "exec_wait" /\ pc' # pc) =>
            \A p \in DOMAIN files' :
                (p \notin DOMAIN files \/ files'[p] # files[p]) => InWorkspace(p) ]_vars

\* C6 as claimed: for the answer that is one fenced block with the opening
\* line "py a" and the body b, execute writes the file a of the workspace
\* with the content b, trailing whitespace trimmed and nothing else.
C6_BodyWritten ==
    \A b \in Bodies :
        (pc # "exec_wait" /\ content = Block(TagPy, <<" ">>, NameA, b)) =>
            /\ exc = "none"
            /\ Workspace \o <<NameA>> \in DOMAIN files
            /\ files[Workspace \o <<NameA>>] = RStrip(b)

\* C7: plan() raises whenever the answer does not contain the marker PLAN:
\* (IndexError, or in llmpc_v2.py the UnicodeEncodeError of printing an answer
\* that holds a surrogate).  The exception leaves main(); no plan is returned
\* (the local plan, the trace and the history are unchanged).
C7_NoMarkerRaises ==
    [][ (pc = "plan_wait" /\ pc' # pc /\ exc' # "UpstreamFailure"
         /\ ~HasMarker(content')) =>
            /\ exc' \in {"IndexError", "UnicodeEncodeError"}
            /\ (exc' = "IndexError" \/ (variant = "v2" /\ HasSurrogate(content')))
            /\ pc' = "failed"
            /\ plan' = plan
            /\ trace' = trace
            /\ actions' = actions ]_vars

\* C7, its case: an answer without the marker was received in the second
\* iteration, with a history that is not empty.
C7_Witness ==
    /\ pc = "failed"
    /\ exc = "IndexError"
    /\ content # <<>>
    /\ ~HasMarker(content)
    /\ actions # <<>>

\* the text after the first marker
AfterMarker(text) ==
    LET at == {i \in 1 .. Len(text) :
                  i + Len(MARKER) - 1 <= Len(text)
                  /\ SubSeq(text, i, i + Len(MARKER) - 1) = MARKER}
    IN  From(text, SetMin(at) + Len(MARKER))

\* a line that starts with a digit followed by a period
NumberedLine(l) == Len(l) >= 2 /\ IsDigit(l[1]) /\ l[2] = "."

\* one step per numbered line: the text after its first period, trimmed
RECURSIVE StepsOf(_)
StepsOf(lines) ==
    IF lines = <<>> THEN <<>>
    ELSE (IF NumberedLine(Head(lines)) THEN <<Strip(From(Head(lines), 3))>> ELSE <<>>)
         \o StepsOf(Tail(lines))

\* C8 as claimed: for an answer with the marker, plan() returns one step for
\* each line after the marker that starts with a digit followed by a period,
\* in order, and no other line makes it fail.
C8_NumberedLinesAreSteps ==
    (pc # "plan_wait" /\ exc \notin {"UpstreamFailure", "UnicodeEncodeError"}
     /\ HasMarker(content)) =>
        /\ pc = "execute"
        /\ plan = StepsOf(Split(AfterMarker(content), NL))

\* C9 as claimed: the context of every prompt is the serialization of the
\* files that are in the workspace when the prompt is built.
C9_ContextFresh ==
    [][ (PromptBuilt /\ request' # NoRequest) =>
            request'.context \in
                {files_context(variant, FS, o) : o \in Orders(WorkspaceFiles(FS))} ]_vars

\* C10 as claimed: get_system_prompt changes neither the directories nor the
\* files of the storage, nor the goal, nor the history.
C10_NoSideEffects ==
    [][ PromptBuilt =>
            /\ dirs' = dirs
            /\ files' = files
            /\ goal' = goal
            /\ actions' = actions ]_vars

\* C11: applying the fenced blocks of an answer is idempotent.  When execute
\* has applied the blocks of an answer (it returned, or raised while
\* writing), applying the blocks of the same answer again to the file system
\* it left gives that file system again, the same directories, files and
\* contents, and ends the same way.
C11_Idempotent ==
    [][ (variant = "v2" /\ pc = "exec_wait" /\ pc' # pc
         /\ (exc' \in {"none", "OSError", "ValueError"} \/ files' # files)) =>
            LET again == write_blocks([dirs |-> dirs', files |-> files'],
                                      code_blocks(content', 1))
            IN  /\ again.fs = [dirs |-> dirs', files |-> files']
                /\ again.raised = exc' ]_vars

\* C11, its case: an answer of two blocks was applied to the workspace that
\* held the file a; a was overwritten and a second file was created.
C11_Witness ==
    /\ pc = "gate"
    /\ Workspace \o <<NameA>> \in DOMAIN files
    /\ files[Workspace \o <<NameA>>] \notin {<<>>, <<"o", "l", "d">>}
    /\ Workspace \o << <<"d">> >> \in dirs
    /\ Cardinality(DOMAIN files) >= 2

\* the answers that are one fenced block whose opening fence line holds a
\* language tag only, or nothing, the body starting on the next line
TagOnlyBlocks == {FENCE \o t \o NL \o b \o FENCE : t \in {<<>>, TagPy}, b \in Bodies}

\* C12 as claimed: a block whose opening fence line holds no filename makes
\* execute create or overwrite no file; no line of the body is taken as a
\* filename.
C12_OnlyFenceLineFilenames ==
    [][ (pc = "exec_wait" /\ pc' # pc /\ content' \in TagOnlyBlocks) =>
            files' = files /\ dirs' = dirs ]_vars

=============================================================================
